---- MODULE Spec2Model ----
(***************************************************************************)
(* A model of the farm_survey ETL utility:                                 *)
(*   src/assets/scripts/weather_data_processor.py  WeatherDataProcessor    *)
(*   src/part_3/field_data_processor.py            FieldDataProcessor      *)
(*   src/part_3/data_ingestion.py                  the three loaders       *)
(*   src/part_3/validate_data.py                   the data tests          *)
(*                                                                         *)
(* A message is a sequence of one-character strings.  A regex pattern of   *)
(* the pattern table is of the family  ([cls]+)u1|([cls]+)u2|...  : one    *)
(* capture group per alternative, a run of characters of the class cls     *)
(* followed by a unit character.  A float is an exact rational <<n, d>>    *)
(* in lowest terms (d > 0); NaN is a 1-tuple of its own.                   *)
(***************************************************************************)
EXTENDS Integers, Sequences, FiniteSets, TLC

VARIABLES
    patterns,     \* WeatherDataProcessor.patterns: the pattern table, in dict order
    message,      \* the argument of a direct extract_measurement call
    weather_csv,  \* the rows the weather CSV URL serves
    weather_df,   \* WeatherDataProcessor.weather_df
    field_db,           \* the rows the SQL query yields
    mapping_csv,        \* the rows the station-mapping CSV URL serves
    columns_to_rename,  \* FieldDataProcessor.columns_to_rename, in dict order
    values_to_rename,   \* FieldDataProcessor.values_to_rename
    df,                 \* FieldDataProcessor.df
    engine,             \* FieldDataProcessor.engine
    merges,             \* history: the merges into df since it was ingested
    corrected,          \* history: apply_corrections has returned on this df
    prev,               \* history: the call before the last one
    last          \* history: the last call, its argument state and its outcome

weather_vars == <<patterns, message, weather_csv, weather_df>>
field_config == <<field_db, mapping_csv, columns_to_rename, values_to_rename>>
field_vars == <<field_config, df, engine, merges, corrected, prev>>
vars == <<weather_vars, field_vars, last>>

--------------------------------------------------------------------------
(* Bounds of the model *)

MsgLen == 3
MaxAlts == 2
MaxRows == 2
MaxCols == 3
MaxMerges == 1

--------------------------------------------------------------------------
(* Values *)

\* None among strings, None among numbers (a 1-tuple, a float being a pair),
\* and NaN, which no message is: a message is made of single characters
None == "None"
NoneValue == <<"None">>
NaN == <<"NaN">>
IsNull(v) == v = NoneValue \/ v = NaN
NoCall == [op |-> "init"]

DigitChars == {"2", "4"}
UnitChars == {"C", "%"}
Chars == DigitChars \cup {"."} \cup UnitChars
Kinds == {"temperature", "humidity"}
Stations == {"A", "B"}

SeqsUpTo(S, n) == UNION {[1..k -> S] : k \in 0..n}

Messages == SeqsUpTo(Chars, MsgLen)

RECURSIVE Gcd(_, _)
Gcd(a, b) == IF b = 0 THEN a ELSE Gcd(b, a % b)

Abs(v) == IF v < 0 THEN -v ELSE v

\* the rational n/d in lowest terms, d > 0
Rat(n, d) ==
    LET g == Gcd(Abs(n), d)
    IN  <<n \div g, d \div g>>

RECURSIVE Pow10(_)
Pow10(k) == IF k = 0 THEN 1 ELSE 10 * Pow10(k - 1)

DigitVal(c) == IF c = "2" THEN 2 ELSE 4

--------------------------------------------------------------------------
(* float(text) on a text of digits and points, src weather_data_processor.py:85 *)

CountOf(s, c) == Cardinality({i \in 1..Len(s) : s[i] = c})

\* float() accepts digits with at most one point and at least one digit
FloatParses(s) ==
    /\ \A i \in 1..Len(s) : s[i] \in DigitChars \cup {"."}
    /\ CountOf(s, ".") <= 1
    /\ \E i \in 1..Len(s) : s[i] \in DigitChars

RECURSIVE DigitsValue(_)
DigitsValue(s) ==
    IF s = <<>> THEN 0
    ELSE 10 * DigitsValue(SubSeq(s, 1, Len(s) - 1)) + DigitVal(s[Len(s)])

\* the value of a text FloatParses accepts
FloatValue(s) ==
    LET digits == SelectSeq(s, LAMBDA c : c # ".")
        point == IF CountOf(s, ".") = 0 THEN Len(s) + 1
                 ELSE CHOOSE i \in 1..Len(s) : s[i] = "."
        frac == Len(s) - point
    IN  Rat(DigitsValue(digits), Pow10(IF frac < 0 THEN 0 ELSE frac))

--------------------------------------------------------------------------
(* re.search(pattern, message), src weather_data_processor.py:82 *)

NoMatch == [matched |-> FALSE]

Alternatives == UNION {[1..k -> UnitChars] : k \in 1..MaxAlts}
CharClasses == {DigitChars, DigitChars \cup {"."}}
Patterns == [cls : CharClasses, alts : Alternatives]

\* the end of the maximal run of class characters that starts at i (i-1: none)
RECURSIVE RunEnd(_, _, _)
RunEnd(cls, msg, i) ==
    IF i <= Len(msg) /\ msg[i] \in cls THEN RunEnd(cls, msg, i + 1) ELSE i - 1

\* alternative k of the pattern matches at position i: a greedy run of the
\* class, then the unit (no unit is in a class, so backtracking finds nothing)
AltMatchesAt(pattern, msg, i, k) ==
    LET j == RunEnd(pattern.cls, msg, i)
    IN  j >= i /\ j < Len(msg) /\ msg[j + 1] = pattern.alts[k]

MatchesAt(pattern, msg, i) ==
    \E k \in 1..Len(pattern.alts) : AltMatchesAt(pattern, msg, i, k)

\* the match object: leftmost start, then the first alternative that matches
\* there; groups() holds the text of that alternative's group, None elsewhere
re_search(pattern, msg) ==
    IF \E i \in 1..Len(msg) : MatchesAt(pattern, msg, i)
    THEN LET i == CHOOSE p \in 1..Len(msg) :
                    /\ MatchesAt(pattern, msg, p)
                    /\ \A q \in 1..(p - 1) : ~MatchesAt(pattern, msg, q)
             k == CHOOSE a \in 1..Len(pattern.alts) :
                    /\ AltMatchesAt(pattern, msg, i, a)
                    /\ \A b \in 1..(a - 1) : ~AltMatchesAt(pattern, msg, i, b)
             text == SubSeq(msg, i, RunEnd(pattern.cls, msg, i))
         IN  [matched |-> TRUE,
              groups |-> [g \in 1..Len(pattern.alts) |->
                            IF g = k THEN <<text>> ELSE <<>>]]
    ELSE NoMatch

\* next((x for x in match.groups() if x is not None)); a group is <<text>>,
\* and <<>> when it is None
FirstGroup(groups) ==
    LET g == CHOOSE a \in 1..Len(groups) :
                 /\ groups[a] # <<>>
                 /\ \A b \in 1..(a - 1) : groups[b] = <<>>
    IN  groups[g][1]

--------------------------------------------------------------------------
(* WeatherDataProcessor.extract_measurement *)

Returned(kind, value) == [tag |-> "return", kind |-> kind, value |-> value]
Raised(exc) == [tag |-> "raise", exc |-> exc]

\* the loop over self.patterns.items() from entry i on; re.search raises
\* TypeError on a message that is no string (the NaN of an empty CSV field)
RECURSIVE ExtractFrom(_, _, _)
ExtractFrom(table, msg, i) ==
    IF i > Len(table) THEN Returned(None, NoneValue)
    ELSE IF msg = NaN THEN Raised("TypeError")
    ELSE LET m == re_search(table[i].pattern, msg)
         IN  IF m.matched
             THEN LET text == FirstGroup(m.groups)
                  IN  IF FloatParses(text)
                      THEN Returned(table[i].key, FloatValue(text))
                      ELSE Raised("ValueError")
             ELSE ExtractFrom(table, msg, i + 1)

\* a mutant: a later pattern that matches overrides an earlier one
RECURSIVE ExtractLastWins(_, _, _)
ExtractLastWins(table, msg, i) ==
    IF i < 1 THEN Returned(None, NoneValue)
    ELSE IF msg = NaN THEN Raised("TypeError")
    ELSE LET m == re_search(table[i].pattern, msg)
         IN  IF m.matched
             THEN LET text == FirstGroup(m.groups)
                  IN  IF FloatParses(text)
                      THEN Returned(table[i].key, FloatValue(text))
                      ELSE Raised("ValueError")
             ELSE ExtractLastWins(table, msg, i - 1)

extract_measurement_last_wins(table, msg) == ExtractLastWins(table, msg, Len(table))

\* a mutant: a matched group that float() rejects is skipped, and the loop
\* goes on to the later patterns
RECURSIVE ExtractSkippingBadNumbers(_, _, _)
ExtractSkippingBadNumbers(table, msg, i) ==
    IF i > Len(table) THEN Returned(None, NoneValue)
    ELSE IF msg = NaN THEN Raised("TypeError")
    ELSE LET m == re_search(table[i].pattern, msg)
         IN  IF m.matched /\ FloatParses(FirstGroup(m.groups))
             THEN Returned(table[i].key, FloatValue(FirstGroup(m.groups)))
             ELSE ExtractSkippingBadNumbers(table, msg, i + 1)

extract_measurement_skipping(table, msg) == ExtractSkippingBadNumbers(table, msg, 1)

extract_measurement(table, msg) == ExtractFrom(table, msg, 1)

--------------------------------------------------------------------------
(* The pattern tables: a dict, so the keys are distinct *)

PatternTables ==
    {t \in UNION {[1..k -> [key : Kinds, pattern : Patterns]] :
                    k \in 0..Cardinality(Kinds)} :
        \A i, j \in 1..Len(t) : i # j => t[i].key # t[j].key}

\* the tables of the weather pipeline runs: an entry per kind, each pattern
\* one alternative over digits and points
DfTables ==
    {t \in PatternTables :
        /\ Len(t) = Cardinality(Kinds)
        /\ \A i \in 1..Len(t) :
              /\ Len(t[i].pattern.alts) = 1
              /\ t[i].pattern.cls = DigitChars \cup {"."}}

\* the messages of the weather CSV: empty, or a character and a unit
DfMessages == {<<>>} \cup {<<c, u>> : c \in Chars, u \in UnitChars}

CsvRows == [Weather_station_ID : Stations, Message : DfMessages]

--------------------------------------------------------------------------
(* Rational arithmetic of the means *)

RatAdd(a, b) == Rat(a[1] * b[2] + b[1] * a[2], a[2] * b[2])
RatDiv(a, c) == Rat(a[1], a[2] * c)

--------------------------------------------------------------------------
(* data_ingestion: the collaborators' outcomes and the three loaders *)

Ok(value) == [tag |-> "ok", value |-> value]

\* the exception classes a collaborator raises, each with its base classes
Bases(exc) ==
    CASE exc = "ModuleNotFoundError" -> {"ImportError", "Exception"}
      [] exc = "ImportError" -> {"Exception"}
      [] exc = "OperationalError" -> {"Exception"}
      [] exc = "EmptyDataError" -> {"ValueError", "Exception"}
      [] exc = "ValueError" -> {"Exception"}
      [] exc = "URLError" -> {"Exception"}
      [] OTHER -> {}

IsInstance(exc, cls) == exc = cls \/ cls \in Bases(exc)

\* a local name no statement has bound
Unbound == "<unbound>"

\* raise e
RaiseName(e) ==
    IF e = Unbound THEN Raised("UnboundLocalError") ELSE Raised(e)

EngineFailures == {"ModuleNotFoundError", "ImportError", "OperationalError",
                   "KeyboardInterrupt"}
QueryFailures == {"OperationalError", "ValueError", "KeyboardInterrupt"}
FetchFailures == {"EmptyDataError", "URLError", "KeyboardInterrupt"}

\* the first failure of a sequence of collaborator outcomes, or the last
\* outcome when none fails
RECURSIVE FirstFailure(_)
FirstFailure(outcomes) ==
    IF Len(outcomes) = 1 \/ outcomes[1].tag = "raise" THEN outcomes[1]
    ELSE FirstFailure(Tail(outcomes))

\* create_db_engine: create_engine(db_path), then engine.connect().  The
\* ImportError clause binds no name, so its raise e finds e unbound
create_db_engine(create, connect) ==
    LET tried == FirstFailure(<<create, connect>>)
    IN  IF tried.tag = "ok" THEN Ok("engine")
        ELSE IF IsInstance(tried.exc, "ImportError") THEN RaiseName(Unbound)
        ELSE IF IsInstance(tried.exc, "Exception") THEN RaiseName(tried.exc)
        ELSE Raised(tried.exc)

\* query_data: engine.connect(), pd.read_sql_query, then the empty check,
\* whose ValueError the function's own except clause catches and re-raises
query_data(connect, read) ==
    LET tried == FirstFailure(<<connect, read>>)
        inner == IF tried.tag = "ok"
                    /\ (Len(tried.value.rows) = 0 \/ Len(tried.value.columns) = 0)
                 THEN Raised("ValueError") ELSE tried
    IN  IF inner.tag = "ok" THEN inner
        ELSE IF IsInstance(inner.exc, "ValueError") THEN RaiseName(inner.exc)
        ELSE IF IsInstance(inner.exc, "Exception") THEN RaiseName(inner.exc)
        ELSE Raised(inner.exc)

\* read_from_web_CSV: pd.read_csv(URL)
read_from_web_CSV(fetch) ==
    IF fetch.tag = "ok" THEN fetch
    ELSE IF IsInstance(fetch.exc, "EmptyDataError") THEN RaiseName(fetch.exc)
    ELSE IF IsInstance(fetch.exc, "Exception") THEN RaiseName(fetch.exc)
    ELSE Raised(fetch.exc)

\* what a fetch of a CSV holding `rows` may do
Fetches(rows) == {Ok(rows)} \cup {Raised(x) : x \in FetchFailures}

--------------------------------------------------------------------------
(* WeatherDataProcessor: the data frame *)

\* weather_df is None
NoFrame == [loaded |-> FALSE]

\* pd.read_csv with its default na_values: an empty field is read as NaN
ReadCsvCell(text) == IF Len(text) = 0 THEN NaN ELSE text

\* pd.read_csv of the weather CSV: the two source columns, the station
\* identifiers as they are (none is empty)
LoadedFrame(rows) ==
    [loaded |-> TRUE, columns |-> {"Weather_station_ID", "Message"},
     rows |-> [i \in 1..Len(rows) |->
                 [Weather_station_ID |-> rows[i].Weather_station_ID,
                  Message |-> ReadCsvCell(rows[i].Message)]]]

\* the column a tuple of extracted values becomes: float64 with NaN for None
\* when a float is among them, and an object column of None otherwise
ValueColumn(results) ==
    IF \E i \in 1..Len(results) : results[i].value # NoneValue
    THEN [i \in 1..Len(results) |->
            IF results[i].value = NoneValue THEN NaN ELSE results[i].value]
    ELSE [i \in 1..Len(results) |-> NoneValue]

\* the rows of weather_df["Measurement"], weather_df["Value"] = zip(*result):
\* every row keeps its place and gains (or has overwritten) the derived fields
MeasuredRows(frame, results) ==
    LET values == ValueColumn(results)
    IN  [i \in 1..Len(frame.rows) |->
            [Weather_station_ID |-> frame.rows[i].Weather_station_ID,
             Message |-> frame.rows[i].Message,
             Measurement |-> results[i].kind,
             Value |-> values[i]]]

\* a mutant: the rows whose message matched nothing are dropped
WithMeasurementsDroppingMisses(frame, results) ==
    [loaded |-> TRUE,
     columns |-> frame.columns \cup {"Measurement", "Value"},
     rows |-> SelectSeq(MeasuredRows(frame, results), LAMBDA r : r.Measurement # None)]

WithMeasurements(frame, results) ==
    [loaded |-> TRUE,
     columns |-> frame.columns \cup {"Measurement", "Value"},
     rows |-> MeasuredRows(frame, results)]

\* Series.apply(self.extract_measurement) over the Message column
AppliedResults(table, frame) ==
    [i \in 1..Len(frame.rows) |-> extract_measurement(table, frame.rows[i].Message)]

\* process_messages on a loaded frame: the outcome and the frame it leaves.
\* apply() calls extract_measurement record by record and raises what the
\* first failing call raises; unpacking zip(*result) of no rows into two
\* targets raises ValueError; neither assigns anything
ProcessLoaded(table, frame) ==
    LET results == AppliedResults(table, frame)
        failed == {i \in 1..Len(results) : results[i].tag = "raise"}
    IN  IF failed # {}
        THEN [out |-> results[CHOOSE i \in failed : \A j \in failed : i <= j],
              df |-> frame]
        ELSE IF Len(results) = 0
        THEN [out |-> Raised("ValueError"), df |-> frame]
        ELSE [out |-> [tag |-> "return"], df |-> WithMeasurements(frame, results)]

--------------------------------------------------------------------------
(* WeatherDataProcessor.calculate_means *)

\* the (station, kind) keys of groupby: a null key makes no group
GroupKeys(rows) ==
    {<<rows[i].Weather_station_ID, rows[i].Measurement>> :
        i \in {j \in 1..Len(rows) : rows[j].Measurement # None}}

InGroup(r, key) ==
    r.Weather_station_ID = key[1] /\ r.Measurement = key[2] /\ ~IsNull(r.Value)

\* sum and count of the group's values over rows 1..i
RECURSIVE GroupSum(_, _, _)
GroupSum(rows, key, i) ==
    IF i = 0 THEN <<0, 1>>
    ELSE IF InGroup(rows[i], key)
         THEN RatAdd(GroupSum(rows, key, i - 1), rows[i].Value)
         ELSE GroupSum(rows, key, i - 1)

RECURSIVE GroupCount(_, _, _)
GroupCount(rows, key, i) ==
    IF i = 0 THEN 0
    ELSE GroupCount(rows, key, i - 1) + (IF InGroup(rows[i], key) THEN 1 ELSE 0)

\* groupby(["Weather_station_ID", "Measurement"])["Value"].mean()
GroupMeans(rows) ==
    [key \in GroupKeys(rows) |->
        RatDiv(GroupSum(rows, key, Len(rows)), GroupCount(rows, key, Len(rows)))]

\* a mutant: unstack(fill_value=0)
UnstackZeroFilled(means) ==
    LET index == {key[1] : key \in DOMAIN means}
        columns == {key[2] : key \in DOMAIN means}
    IN  [tag |-> "DataFrame", index |-> index, columns |-> columns,
         cell |-> [key \in index \X columns |->
                     IF key \in DOMAIN means THEN means[key] ELSE <<0, 1>>]]

\* means.unstack(): stations the rows, kinds the columns, NaN where the
\* pair of a row and a column has no mean
Unstack(means) ==
    LET index == {key[1] : key \in DOMAIN means}
        columns == {key[2] : key \in DOMAIN means}
    IN  [tag |-> "DataFrame", index |-> index, columns |-> columns,
         cell |-> [key \in index \X columns |->
                     IF key \in DOMAIN means THEN means[key] ELSE NaN]]

\* a mutant: a frame without the Measurement column aggregates to nothing
calculate_means_lenient(frame) ==
    IF frame.loaded
    THEN IF "Measurement" \in frame.columns
         THEN Unstack(GroupMeans(frame.rows))
         ELSE Unstack(GroupMeans(<<>>))
    ELSE [tag |-> "None"]

\* None (and a warning) without a frame, KeyError without the Measurement
\* column, the pivoted means otherwise
calculate_means(frame) ==
    IF frame.loaded
    THEN IF "Measurement" \in frame.columns
         THEN Unstack(GroupMeans(frame.rows))
         ELSE Raised("KeyError")
    ELSE [tag |-> "None"]

--------------------------------------------------------------------------
(* WeatherDataProcessor: the operations *)

Call(op, pre, src, out) == [op |-> op, pre |-> pre, src |-> src, out |-> out]

\* weather_station_mapping: self.weather_df = read_from_web_CSV(url)
W_weather_station_mapping ==
    \E fetch \in Fetches(weather_csv) :
        LET got == read_from_web_CSV(fetch)
        IN  /\ weather_df' = IF got.tag = "ok" THEN LoadedFrame(got.value)
                              ELSE weather_df
            /\ last' = Call("W.weather_station_mapping", weather_df, fetch, got)
            /\ UNCHANGED <<patterns, message, weather_csv, field_vars>>

\* a direct call of extract_measurement
W_extract_measurement ==
    /\ last' = Call("extract_measurement", message, Ok(message),
                    extract_measurement(patterns, message))
    /\ UNCHANGED <<weather_vars, field_vars>>

\* process_messages: returns weather_df, None without a frame
process_messages ==
    LET done == IF weather_df.loaded THEN ProcessLoaded(patterns, weather_df)
                ELSE [out |-> [tag |-> "return"], df |-> weather_df]
    IN  /\ weather_df' = done.df
        /\ last' = Call("process_messages", weather_df, Ok(<<>>), done.out)
        /\ UNCHANGED <<patterns, message, weather_csv, field_vars>>

\* whether an extraction has filled the frame, and whether any message of it
\* matched a pattern
Extracted(frame) == frame.loaded /\ "Measurement" \in frame.columns
AnyMatch(frame) ==
    \E i \in 1..Len(frame.rows) : frame.rows[i].Measurement # None

W_calculate_means ==
    LET out == calculate_means(weather_df)
    IN  /\ last' = Call("calculate_means", weather_df, Ok(<<>>), out)
        /\ UNCHANGED <<weather_vars, field_vars>>

\* process: weather_station_mapping, then process_messages on the frame it
\* loaded; a failed fetch ends the call before any message is processed
W_process ==
    \E fetch \in Fetches(weather_csv) :
      \E got \in {read_from_web_CSV(fetch)} :
        \E done \in {IF got.tag = "ok"
                      THEN ProcessLoaded(patterns, LoadedFrame(got.value))
                      ELSE [out |-> got, df |-> weather_df]} :
            /\ weather_df' = done.df
            /\ last' = Call("W.process", weather_df, fetch, done.out)
            /\ UNCHANGED <<patterns, message, weather_csv, field_vars>>

--------------------------------------------------------------------------
(* FieldDataProcessor: the data frame *)

\* a cell is a number, a string or NaN
Num(n) == <<"num", n>>
Str(t) == <<"str", t>>
IsNum(c) == Len(c) = 2 /\ c[1] = "num"
IsStr(c) == Len(c) = 2 /\ c[1] = "str"

\* a frame: the column labels in order, and each row's cells in that order
Frame(columns, rows) == [loaded |-> TRUE, columns |-> columns, rows |-> rows]

HasLabel(columns, label) == \E j \in 1..Len(columns) : columns[j] = label

\* the place of a label that occurs once
ColumnIndex(columns, label) == CHOOSE j \in 1..Len(columns) : columns[j] = label

Column(frame, label) ==
    [i \in 1..Len(frame.rows) |-> frame.rows[i][ColumnIndex(frame.columns, label)]]

\* frame[label] = cells
WithColumn(frame, label, cells) ==
    LET j == ColumnIndex(frame.columns, label)
    IN  [frame EXCEPT !.rows =
            [i \in 1..Len(frame.rows) |-> [frame.rows[i] EXCEPT ![j] = cells[i]]]]

--------------------------------------------------------------------------
(* FieldDataProcessor.rename_columns *)

\* a dict display {k1: v1, k2: v2}: a repeated key keeps its last value
DictLiteral(pairs) ==
    [k \in {pairs[i][1] : i \in 1..Len(pairs)} |->
        LET i == CHOOSE a \in 1..Len(pairs) :
                    /\ pairs[a][1] = k
                    /\ \A b \in (a + 1)..Len(pairs) : pairs[b][1] # k
        IN  pairs[i][2]]

\* DataFrame.rename(columns=mapper): every label the mapper knows is
\* replaced, wherever it occurs; a key that is no label is ignored
Renamed(columns, mapper) ==
    [j \in 1..Len(columns) |->
        IF columns[j] \in DOMAIN mapper THEN mapper[columns[j]] ELSE columns[j]]

\* while temp_name in self.df.columns: temp_name += "_"
RECURSIVE TempName(_, _)
TempName(columns, temp) ==
    IF HasLabel(columns, temp) THEN TempName(columns, temp \o "_") ELSE temp

\* a mutant: the placeholder is used as it is, also when it is a label
SwappedColumnsFixedTemp(columns, column1, column2) ==
    LET temp == "__temp_name_for_swap__"
        first == Renamed(columns,
                         DictLiteral(<< <<column1, temp>>, <<column2, column1>> >>))
    IN  Renamed(first, DictLiteral(<< <<temp, column2>> >>))

\* the two renames of the swap
SwappedColumns(columns, column1, column2) ==
    LET temp == TempName(columns, "__temp_name_for_swap__")
        first == Renamed(columns,
                         DictLiteral(<< <<column1, temp>>, <<column2, column1>> >>))
    IN  Renamed(first, DictLiteral(<< <<temp, column2>> >>))

\* rename_columns: the first key and the first value of columns_to_rename
\* (IndexError on an empty dict), self.df.columns (AttributeError on None),
\* then the swap
RenameColumns(frame, c2r) ==
    IF Len(c2r) = 0 THEN [out |-> Raised("IndexError"), df |-> frame]
    ELSE IF ~frame.loaded THEN [out |-> Raised("AttributeError"), df |-> frame]
    ELSE [out |-> [tag |-> "return"],
          df |-> [frame EXCEPT
                    !.columns = SwappedColumns(frame.columns, c2r[1][1], c2r[1][2])]]

--------------------------------------------------------------------------
(* FieldDataProcessor.apply_corrections *)

\* Series.abs() on one cell
AbsCellIdentity(c) == c

AbsCell(c) == IF c = NaN THEN NaN ELSE Num(Abs(c[2]))

\* a mutant: values_to_rename.get(crop), without the default
CorrectedCropNoDefault(alias, c) ==
    IF IsStr(c) /\ c[2] \in DOMAIN alias THEN Str(alias[c[2]]) ELSE NoneValue

\* values_to_rename.get(crop, crop)
CorrectedCrop(alias, c) ==
    IF IsStr(c) /\ c[2] \in DOMAIN alias THEN Str(alias[c[2]]) ELSE c

\* apply_corrections(column_name="Crop_type", abs_column="Elevation") on a
\* frame whose labels are distinct: the Elevation assignment is done before
\* the Crop_type column is looked up
ApplyCorrections(frame, alias) ==
    IF ~frame.loaded THEN [out |-> Raised("TypeError"), df |-> frame]
    ELSE IF ~HasLabel(frame.columns, "Elevation")
    THEN [out |-> Raised("KeyError"), df |-> frame]
    ELSE IF \E i \in 1..Len(frame.rows) :
               LET c == Column(frame, "Elevation")[i] IN ~(IsNum(c) \/ c = NaN)
    THEN [out |-> Raised("TypeError"), df |-> frame]
    ELSE LET elevation == Column(frame, "Elevation")
             absolute == WithColumn(frame, "Elevation",
                            [i \in 1..Len(frame.rows) |-> AbsCell(elevation[i])])
         IN  IF ~HasLabel(frame.columns, "Crop_type")
             THEN [out |-> Raised("KeyError"), df |-> absolute]
             ELSE LET crop == Column(absolute, "Crop_type")
                  IN  [out |-> [tag |-> "return"],
                       df |-> WithColumn(absolute, "Crop_type",
                                [i \in 1..Len(frame.rows) |->
                                    CorrectedCrop(alias, crop[i])])]

--------------------------------------------------------------------------
(* FieldDataProcessor.weather_station_mapping *)

MappingColumns == <<"Field_ID", "Weather_station">>

\* the labels of both frames but the key
Overlap(left, right) ==
    ({left[j] : j \in 1..Len(left)} \cap {right[j] : j \in 1..Len(right)})
        \ {"Field_ID"}

\* the labels of the merge: the left ones, then the right ones but the key;
\* a label of both frames gets the suffix _x on the left and _y on the right
MergedColumns(left, right) ==
    LET both == Overlap(left, right)
        keyless == SelectSeq(right, LAMBDA c : c # "Field_ID")
    IN  [j \in 1..Len(left) |->
            IF left[j] \in both THEN left[j] \o "_x" ELSE left[j]]
        \o [j \in 1..Len(keyless) |->
            IF keyless[j] \in both THEN keyless[j] \o "_y" ELSE keyless[j]]

\* the cells of a mapping row but its key
Keyless(columns, row) ==
    LET places == SelectSeq([j \in 1..Len(columns) |-> j],
                            LAMBDA j : columns[j] # "Field_ID")
    IN  [j \in 1..Len(places) |-> row[places[j]]]

\* a mutant: an inner join, a field row without a mapping row is dropped
JoinedRowsInner(row, key, columns, mapping) ==
    LET k == ColumnIndex(columns, "Field_ID")
        found == SelectSeq(mapping, LAMBDA m : m[k] = key)
    IN  [j \in 1..Len(found) |-> row \o Keyless(columns, found[j])]

\* the rows one field row becomes: one per mapping row of its key, in the
\* mapping's order, and one with NaN in the mapping's columns when none has it
JoinedRows(row, key, columns, mapping) ==
    LET k == ColumnIndex(columns, "Field_ID")
        found == SelectSeq(mapping, LAMBDA m : m[k] = key)
    IN  IF Len(found) = 0
        THEN << row \o [j \in 1..(Len(columns) - 1) |-> NaN] >>
        ELSE [j \in 1..Len(found) |-> row \o Keyless(columns, found[j])]

\* the rows of the merge from field row i on
RECURSIVE MergedRows(_, _, _, _, _)
MergedRows(rows, k, columns, mapping, i) ==
    IF i > Len(rows) THEN <<>>
    ELSE JoinedRows(rows[i], rows[i][k], columns, mapping)
         \o MergedRows(rows, k, columns, mapping, i + 1)

\* self.df.merge(weather_map_df, on="Field_ID", how="left")
LeftMerge(frame, mapping) ==
    Frame(MergedColumns(frame.columns, MappingColumns),
          MergedRows(frame.rows, ColumnIndex(frame.columns, "Field_ID"),
                     MappingColumns, mapping, 1))

\* weather_station_mapping: the fetch first, then self.df.merge
\* (AttributeError on None, KeyError without the key column)
WeatherStationMapping(frame, got) ==
    IF got.tag = "raise" THEN [out |-> got, df |-> frame]
    ELSE IF ~frame.loaded THEN [out |-> Raised("AttributeError"), df |-> frame]
    ELSE IF ~HasLabel(frame.columns, "Field_ID")
    THEN [out |-> Raised("KeyError"), df |-> frame]
    ELSE [out |-> [tag |-> "return"], df |-> LeftMerge(frame, got.value)]

\* self.df.drop(columns=label, inplace=True): every column of that label
\* goes, and KeyError when there is none
DropColumns(frame, label) ==
    IF ~HasLabel(frame.columns, label)
    THEN [out |-> Raised("KeyError"), df |-> frame]
    ELSE LET keep == SelectSeq([j \in 1..Len(frame.columns) |-> j],
                               LAMBDA j : frame.columns[j] # label)
         IN  [out |-> [tag |-> "return"],
              df |-> Frame([j \in 1..Len(keep) |-> frame.columns[keep[j]]],
                           [i \in 1..Len(frame.rows) |->
                              [j \in 1..Len(keep) |-> frame.rows[i][keep[j]]]])]

--------------------------------------------------------------------------
(* FieldDataProcessor: the operations *)

\* where an ingestion may fail: the four collaborator calls of
\* create_db_engine and query_data, the first failure ending the call
IngestScenarios ==
    {<<Ok("engine"), Ok("connection"), Ok("connection"), Ok(field_db)>>}
    \cup {<<Raised(x), Ok("connection"), Ok("connection"), Ok(field_db)>> :
            x \in EngineFailures}
    \cup {<<Ok("engine"), Raised("OperationalError"), Ok("connection"), Ok(field_db)>>,
          <<Ok("engine"), Ok("connection"), Raised("OperationalError"), Ok(field_db)>>}
    \cup {<<Ok("engine"), Ok("connection"), Ok("connection"), Raised(x)>> :
            x \in QueryFailures}

\* ingest_sql_data: self.engine = create_db_engine(...), then
\* self.df = query_data(self.engine, ...)
ingest_sql_data ==
    \E sc \in IngestScenarios :
        LET made == create_db_engine(sc[1], sc[2])
            read == query_data(sc[3], sc[4])
            src == FirstFailure(sc)
            ok == made.tag = "ok" /\ read.tag = "ok"
        IN  /\ engine' = IF made.tag = "ok" THEN "engine" ELSE engine
            /\ df' = IF ok THEN Frame(read.value.columns, read.value.rows) ELSE df
            /\ merges' = IF ok THEN 0 ELSE merges
            /\ corrected' = IF ok THEN FALSE ELSE corrected
            /\ prev' = NoCall
            /\ last' = Call("ingest_sql_data", df, src,
                            IF made.tag = "ok" THEN read ELSE made)
            /\ UNCHANGED <<weather_vars, field_config>>

\* rename_columns relabels columns and keeps the records, corrected or not
rename_columns ==
    LET done == RenameColumns(df, columns_to_rename)
    IN  /\ df' = done.df
        /\ prev' = IF last.op = "rename_columns" THEN last ELSE NoCall
        /\ last' = Call("rename_columns", df, Ok(<<>>), done.out)
        /\ UNCHANGED <<weather_vars, field_config, engine, merges, corrected>>

apply_corrections ==
    LET done == ApplyCorrections(df, values_to_rename)
    IN  /\ df' = done.df
        /\ corrected' = IF done.out.tag = "return" THEN TRUE ELSE corrected
        /\ prev' = NoCall
        /\ last' = Call("apply_corrections", df, Ok(<<>>), done.out)
        /\ UNCHANGED <<weather_vars, field_config, engine, merges>>

F_weather_station_mapping ==
    /\ merges < MaxMerges
    /\ \E fetch \in Fetches(mapping_csv) :
        LET done == WeatherStationMapping(df, read_from_web_CSV(fetch))
        IN  /\ df' = done.df
            /\ merges' = IF done.out.tag = "return" THEN merges + 1 ELSE merges
            /\ prev' = NoCall
            /\ last' = Call("F.weather_station_mapping", df, fetch, done.out)
            /\ UNCHANGED <<weather_vars, field_config, engine, corrected>>

\* process: ingest_sql_data, rename_columns, apply_corrections,
\* weather_station_mapping and the drop of the "Unnamed: 0" column, each on
\* what the one before left; the first that raises ends the call.  `steps`
\* counts the calls that returned
AfterMapping(mapped) ==
    IF mapped.out.tag # "return"
    THEN [out |-> mapped.out, df |-> mapped.df, steps |-> 3]
    ELSE LET dropped == DropColumns(mapped.df, "Unnamed: 0")
         IN  [out |-> dropped.out, df |-> dropped.df, steps |-> 4]

AfterCorrections(fixed, got) ==
    IF fixed.out.tag # "return"
    THEN [out |-> fixed.out, df |-> fixed.df, steps |-> 2]
    ELSE AfterMapping(WeatherStationMapping(fixed.df, got))

AfterRename(renamed, aliases, got) ==
    IF renamed.out.tag # "return"
    THEN [out |-> renamed.out, df |-> renamed.df, steps |-> 1]
    ELSE AfterCorrections(ApplyCorrections(renamed.df, aliases), got)

FieldProcess(frame, made, read, c2r, aliases, got) ==
    IF made.tag # "ok" THEN [out |-> made, df |-> frame, steps |-> 0]
    ELSE IF read.tag # "ok" THEN [out |-> read, df |-> frame, steps |-> 0]
    ELSE AfterRename(RenameColumns(Frame(read.value.columns, read.value.rows), c2r),
                     aliases, got)

F_process ==
    \E sc \in IngestScenarios :
      \E fetch \in IF FirstFailure(sc).tag = "ok" THEN Fetches(mapping_csv)
                    ELSE {Ok(mapping_csv)} :
        \E made \in {create_db_engine(sc[1], sc[2])} :
          \E done \in {FieldProcess(df, made, query_data(sc[3], sc[4]),
                                     columns_to_rename, values_to_rename,
                                     read_from_web_CSV(fetch))} :
            /\ engine' = IF made.tag = "ok" THEN "engine" ELSE engine
            /\ df' = done.df
            /\ merges' = IF done.steps = 0 THEN merges
                          ELSE IF done.steps = 4 THEN 1 ELSE 0
            /\ corrected' = IF done.steps = 0 THEN corrected ELSE done.steps >= 3
            /\ prev' = NoCall
            /\ last' = Call("F.process", df,
                            IF done.steps = 0 THEN FirstFailure(sc) ELSE fetch,
                            done.out)
            /\ UNCHANGED <<weather_vars, field_config>>

--------------------------------------------------------------------------
(* The specifications *)

\* an empty dict
EmptyDict == <<>>

\* a WeatherDataProcessor that is never used
WeatherIdle ==
    /\ patterns = <<>>
    /\ message = <<>>
    /\ weather_csv = <<>>
    /\ weather_df = NoFrame

\* a FieldDataProcessor that is never used
FieldIdle ==
    /\ field_db = [columns |-> <<>>, rows |-> <<>>]
    /\ mapping_csv = <<>>
    /\ columns_to_rename = <<>>
    /\ values_to_rename = EmptyDict
    /\ df = NoFrame
    /\ engine = None
    /\ merges = 0
    /\ corrected = FALSE
    /\ prev = NoCall

\* extract_measurement on every message under every pattern table
InitExtract ==
    /\ patterns \in PatternTables
    /\ message \in Messages
    /\ weather_csv = <<>>
    /\ weather_df = NoFrame
    /\ FieldIdle
    /\ last = NoCall

NextExtract == W_extract_measurement

SpecExtract == InitExtract /\ [][NextExtract]_vars

\* the weather pipeline over every CSV of up to MaxRows rows
InitWeather ==
    /\ patterns \in DfTables
    /\ message = <<>>
    /\ weather_csv \in SeqsUpTo(CsvRows, MaxRows)
    /\ weather_df = NoFrame
    /\ FieldIdle
    /\ last = NoCall

NextWeather ==
    \/ W_weather_station_mapping
    \/ process_messages
    \/ W_calculate_means

SpecWeather == InitWeather /\ [][NextWeather]_vars

\* the messages of the parse runs: nothing or a reading, a point or a digit
\* followed by a unit, and then nothing or a reading of a digit, so that one
\* pattern can capture "." in a message where another captures a number
ReadingChars == {".", "2"}
ParseParts == {<<>>} \cup {<<c, u>> : c \in ReadingChars, u \in UnitChars}
ParseMessages ==
    {m \o n : m \in ParseParts, n \in {p \in ParseParts : p = <<>> \/ p[1] # "."}}
ParseRows == [Weather_station_ID : {"A"}, Message : ParseMessages]

\* the tables of the parse runs: temperature before humidity, each pattern
\* one alternative, over digits or over digits and points
ParseTables ==
    {t \in PatternTables :
        /\ Len(t) = Cardinality(Kinds)
        /\ t[1].key = "temperature"
        /\ \A i \in 1..Len(t) : Len(t[i].pattern.alts) = 1}

\* extraction, directly on what the frame holds for the first message of
\* the CSV, through process_messages on all of them, and through process
InitParse ==
    /\ patterns \in ParseTables
    /\ weather_csv \in SeqsUpTo(ParseRows, MaxRows)
    /\ message = IF weather_csv = <<>> THEN <<>>
                 ELSE ReadCsvCell(weather_csv[1].Message)
    /\ weather_df = NoFrame
    /\ FieldIdle
    /\ last = NoCall

NextParse ==
    \/ W_weather_station_mapping
    \/ W_extract_measurement
    \/ process_messages
    \/ W_process

SpecParse == InitParse /\ [][NextParse]_vars

\* the labels of the swap frames: the two mislabelled columns and the
\* placeholder, plain and extended
SwapLabels == {"Annual_yield", "Crop_type",
               "__temp_name_for_swap__", "__temp_name_for_swap___"}
ConfiguredLabels == {"Annual_yield", "Crop_type", "__temp_name_for_swap__"}

\* a table of one row whose cell under the j-th label is the number j
Numbered(columns) ==
    [columns |-> columns, rows |-> << [j \in 1..Len(columns) |-> Num(j)] >>]

\* the column swap on every table of up to MaxCols labels, repeated and
\* missing labels included, under every configured pair
InitSwap ==
    /\ WeatherIdle
    /\ field_db \in {Numbered(cs) : cs \in SeqsUpTo(SwapLabels, MaxCols)}
    /\ mapping_csv = <<>>
    /\ columns_to_rename \in
          {<<>>} \cup {<< <<a, b>> >> : a \in ConfiguredLabels, b \in ConfiguredLabels}
    /\ values_to_rename = EmptyDict
    /\ df = NoFrame
    /\ engine = None
    /\ merges = 0
    /\ corrected = FALSE
    /\ prev = NoCall
    /\ last = NoCall

NextSwap ==
    \/ ingest_sql_data
    \/ rename_columns

SpecSwap == InitSwap /\ [][NextSwap]_vars

\* the source table: Annual_yield and Crop_type are each other's label
FieldColumns == <<"Field_ID", "Elevation", "Annual_yield", "Crop_type">>
SwapConfig == << <<"Annual_yield", "Crop_type">>, <<"Crop_type", "Annual_yield">> >>
AliasTable == ("cassaval" :> "cassava") @@ ("wheatn" :> "wheat") @@ ("teaa" :> "tea")

Elevations == {-2, 3}
Crops == {"cassava", "cassaval", "barley"}
FieldIds == {1, 2}
StationNames == {"S1", "S2"}
MappingRows == {<<Num(f), Str(w)>> : f \in FieldIds, w \in StationNames}

\* the mappings of the tables whose Field_IDs vary: any Field_ID in any row,
\* the stations taking turns so that no two rows next to each other agree
KeyMappings ==
    {m \in SeqsUpTo(MappingRows, MaxRows) :
        \A i \in 1..Len(m) : m[i][2] = Str(IF i % 2 = 1 THEN "S1" ELSE "S2")}

\* field tables whose elevations and crops vary, row i having Field_ID i
ValueTables ==
    {t \in SeqsUpTo({<<Num(f), Num(e), Str(c), Num(7)>> :
                        f \in 1..MaxRows, e \in Elevations, c \in Crops}, MaxRows) :
        \A i \in 1..Len(t) : t[i][1] = Num(i)}

\* field tables whose Field_IDs vary
KeyTables ==
    SeqsUpTo({<<Num(f), Num(-2), Str("cassaval"), Num(7)>> : f \in FieldIds}, MaxRows)

\* the source table with the index column a CSV export leaves in it, and
\* its tables: row i has the index i - 1
IndexedColumns == <<"Unnamed: 0">> \o FieldColumns
IndexedTables ==
    {[i \in 1..Len(t) |-> <<Num(i - 1)>> \o t[i]] : t \in KeyTables}

\* the field pipeline: every table of varying values under a fixed mapping
\* and either alias table, every table of varying keys under every mapping
\* of up to MaxRows rows, and every table with the index column
InitField ==
    /\ WeatherIdle
    /\ columns_to_rename = SwapConfig
    /\ \/ /\ field_db \in {[columns |-> FieldColumns, rows |-> t] : t \in ValueTables}
          /\ mapping_csv = << <<Num(1), Str("S1")>>, <<Num(1), Str("S2")>> >>
          /\ values_to_rename \in {EmptyDict, AliasTable}
       \/ /\ field_db \in {[columns |-> FieldColumns, rows |-> t] : t \in KeyTables}
          /\ mapping_csv \in KeyMappings
          /\ values_to_rename = AliasTable
       \/ /\ field_db \in {[columns |-> IndexedColumns, rows |-> t] : t \in IndexedTables}
          /\ mapping_csv = << <<Num(1), Str("S1")>> >>
          /\ values_to_rename = AliasTable
    /\ df = NoFrame
    /\ engine = None
    /\ merges = 0
    /\ corrected = FALSE
    /\ prev = NoCall
    /\ last = NoCall

NextField ==
    \/ ingest_sql_data
    \/ rename_columns
    \/ apply_corrections
    \/ F_weather_station_mapping
    \/ F_process

SpecField == InitField /\ [][NextField]_vars

--------------------------------------------------------------------------
(* Claims on the weather pipeline *)

\* the entries of the table whose pattern matches the message
Hits(table, msg) ==
    {i \in 1..Len(table) : re_search(table[i].pattern, msg).matched}

Least(S) == CHOOSE i \in S : \A j \in S : i <= j

\* the text of the one group of a match that took part in it
GroupText(m) ==
    LET g == CHOOSE a \in 1..Len(m.groups) : m.groups[a] # <<>>
    IN  m.groups[g][1]

\* the first entry of the table that matches the message captures a text
\* that float() rejects
ParseFails(table, msg) ==
    LET hits == Hits(table, msg)
    IN  /\ hits # {}
        /\ ~FloatParses(GroupText(re_search(table[Least(hits)].pattern, msg)))

\* C1: whenever extract_measurement returns, it returns (None, None) if no
\* pattern of the table matches the message, and otherwise the key of the
\* first entry, in table order, whose pattern matches, with the float of the
\* group that pattern captured; a later entry that also matches never
\* decides the kind or the value.
C1_PatternPrecedence ==
    (last.op = "extract_measurement" /\ last.out.tag = "return") =>
        LET hits == Hits(patterns, message)
        IN  IF hits = {}
            THEN last.out.kind = None /\ last.out.value = NoneValue
            ELSE LET first == patterns[Least(hits)]
                     text == GroupText(re_search(first.pattern, message))
                 IN  /\ last.out.kind = first.key
                     /\ FloatParses(text)
                     /\ last.out.value = FloatValue(text)

\* C1 witness: two entries match the message and capture different numbers,
\* and the call returned the first one's
C1_Witness ==
    /\ last.op = "extract_measurement"
    /\ last.out.tag = "return"
    /\ Len(patterns) = 2
    /\ Hits(patterns, message) = {1, 2}
    /\ LET t1 == GroupText(re_search(patterns[1].pattern, message))
           t2 == GroupText(re_search(patterns[2].pattern, message))
       IN  /\ FloatParses(t1) /\ FloatParses(t2)
           /\ FloatValue(t1) # FloatValue(t2)
           /\ last.out.value = FloatValue(t1)

\* C2 as stated: process_messages on a loaded frame that has records, none
\* of them with a message whose capture is no number, returns and leaves the
\* same records in the same order, each with a Measurement and a Value, null
\* for the records whose message matched no pattern.
C2_AsStated ==
    (/\ last.op = "process_messages"
     /\ last.pre.loaded
     /\ Len(last.pre.rows) > 0
     /\ \A i \in 1..Len(last.pre.rows) :
           ~ParseFails(patterns, last.pre.rows[i].Message)) =>
        /\ last.out.tag = "return"
        /\ {"Measurement", "Value"} \subseteq weather_df.columns
        /\ Len(weather_df.rows) = Len(last.pre.rows)
        /\ \A i \in 1..Len(last.pre.rows) :
              /\ weather_df.rows[i].Message = last.pre.rows[i].Message
              /\ Hits(patterns, last.pre.rows[i].Message) = {} =>
                    /\ weather_df.rows[i].Measurement = None
                    /\ IsNull(weather_df.rows[i].Value)

\* C2, for the calls that return: process_messages on a loaded frame keeps
\* every record in its place (whether it returns or raises); when it returns, the frame has the
\* Measurement and Value columns, and every record whose message matches no
\* pattern, for which extract_measurement returns (None, None), is still
\* there with a null Measurement and a null Value.
C2_MissesKept ==
    (last.op = "process_messages" /\ last.pre.loaded) =>
        /\ weather_df.loaded
        /\ Len(weather_df.rows) = Len(last.pre.rows)
        /\ \A i \in 1..Len(last.pre.rows) :
              /\ weather_df.rows[i].Weather_station_ID
                    = last.pre.rows[i].Weather_station_ID
              /\ weather_df.rows[i].Message = last.pre.rows[i].Message
        /\ last.out.tag = "return" =>
              /\ {"Measurement", "Value"} \subseteq weather_df.columns
              /\ \A i \in 1..Len(last.pre.rows) :
                    Hits(patterns, last.pre.rows[i].Message) = {} =>
                        /\ extract_measurement(patterns, last.pre.rows[i].Message)
                              = Returned(None, NoneValue)
                        /\ weather_df.rows[i].Measurement = None
                        /\ IsNull(weather_df.rows[i].Value)

\* C2 witness: process_messages returned on a frame of two records, the
\* first matching no pattern and the second matching one
C2_Witness ==
    /\ last.op = "process_messages"
    /\ last.out.tag = "return"
    /\ last.pre.loaded
    /\ Len(weather_df.rows) = 2
    /\ Hits(patterns, weather_df.rows[1].Message) = {}
    /\ weather_df.rows[1].Measurement = None
    /\ weather_df.rows[2].Measurement # None

\* the outcomes by which calculate_means signals that nothing was extracted
SignalsNoExtraction(out) == out.tag = "None" \/ (out.tag = "raise" /\ out.exc = "KeyError")

\* C3: calculate_means before an extraction (no frame, or a frame that
\* process_messages has not filled) ends in None or in a KeyError, and
\* calculate_means after an extraction, also one in which no message
\* matched, ends in neither: it returns a table.
C3_MisuseDistinct ==
    last.op = "calculate_means" =>
        IF Extracted(last.pre)
        THEN ~SignalsNoExtraction(last.out) /\ last.out.tag = "DataFrame"
        ELSE SignalsNoExtraction(last.out)

\* C3 witness: calculate_means was called on a loaded frame of records that
\* process_messages has not filled
C3_Witness ==
    /\ last.op = "calculate_means"
    /\ last.pre.loaded
    /\ Len(last.pre.rows) > 0
    /\ ~Extracted(last.pre)
    /\ last.out.tag = "raise"

\* the records of a station and a kind
Observations(rows, s, k) ==
    {i \in 1..Len(rows) :
        rows[i].Weather_station_ID = s /\ rows[i].Measurement = k}

RECURSIVE SumOver(_, _)
SumOver(rows, S) ==
    IF S = {} THEN <<0, 1>>
    ELSE LET i == CHOOSE j \in S : TRUE
         IN  RatAdd(rows[i].Value, SumOver(rows, S \ {i}))

\* m is the arithmetic mean of the values of the records S
IsMeanOf(m, rows, S) ==
    /\ Len(m) = 2
    /\ Rat(m[1] * Cardinality(S), m[2]) = SumOver(rows, S)

\* the part of C10 on the means: a pair with observations has a cell, and
\* the cell is the mean of exactly the pair's values
MeansAreExact(rows, out) ==
    \A s \in Stations, k \in Kinds :
        Observations(rows, s, k) # {} =>
            /\ s \in out.index /\ k \in out.columns
            /\ IsMeanOf(out.cell[<<s, k>>], rows, Observations(rows, s, k))

\* C10 as stated: the means are exact, and a pair with no observation is
\* absent from the pivoted table.
C10_AsStated ==
    (last.op = "calculate_means" /\ last.out.tag = "DataFrame") =>
        /\ MeansAreExact(last.pre.rows, last.out)
        /\ \A s \in Stations, k \in Kinds :
              Observations(last.pre.rows, s, k) = {} =>
                  <<s, k>> \notin DOMAIN last.out.cell

\* C10 amended: the means are exact; a station without observations has no
\* row and a kind without observations has no column; a pair with no
\* observation whose station has a row and whose kind has a column is a cell
\* holding NaN, never zero or any other number.
C10_MeansOrNaN ==
    (last.op = "calculate_means" /\ last.out.tag = "DataFrame") =>
        /\ MeansAreExact(last.pre.rows, last.out)
        /\ \A s \in last.out.index :
              \E k \in Kinds : Observations(last.pre.rows, s, k) # {}
        /\ \A k \in last.out.columns :
              \E s \in Stations : Observations(last.pre.rows, s, k) # {}
        /\ \A s \in Stations, k \in Kinds :
              Observations(last.pre.rows, s, k) = {} =>
                  \/ <<s, k>> \notin DOMAIN last.out.cell
                  \/ last.out.cell[<<s, k>>] = NaN

\* C10 witness: a pivoted table holding the mean of two different values
C10_Witness ==
    /\ last.op = "calculate_means"
    /\ last.out.tag = "DataFrame"
    /\ \E s \in Stations, k \in Kinds :
          /\ Cardinality(Observations(last.pre.rows, s, k)) = 2
          /\ last.pre.rows[1].Value # last.pre.rows[2].Value
          /\ last.out.cell[<<s, k>>] \notin {last.pre.rows[1].Value,
                                              last.pre.rows[2].Value}

\* C11: when the first pattern that matches a message captures a text that
\* is no number, extract_measurement raises ValueError, whatever a later
\* pattern would capture and never returning (None, None); process_messages
\* on a frame with such a message raises to its caller, that ValueError
\* unless a record before it has no message at all (whose TypeError comes
\* first), and leaves weather_df as it was, with no Measurement or Value
\* column, also when records before the failing one extract well; process,
\* which calls process_messages on the frame it has just loaded, raises too
\* and leaves that frame as loaded.
C11_ParseFailureRaises ==
    /\ (last.op = "extract_measurement" /\ ParseFails(patterns, last.pre)) =>
          /\ last.out.tag = "raise"
          /\ last.out.exc = "ValueError"
    /\ (/\ last.op = "process_messages"
        /\ last.pre.loaded
        /\ \E i \in 1..Len(last.pre.rows) :
              ParseFails(patterns, last.pre.rows[i].Message)) =>
          /\ last.out.tag = "raise"
          /\ LET bad == Least({i \in 1..Len(last.pre.rows) :
                                 ParseFails(patterns, last.pre.rows[i].Message)})
             IN  last.out.exc =
                    IF \E j \in 1..(bad - 1) : last.pre.rows[j].Message = NaN
                    THEN "TypeError" ELSE "ValueError"
          /\ weather_df = last.pre
          /\ weather_df.columns \cap {"Measurement", "Value"} = {}
    /\ (/\ last.op = "W.process"
        /\ last.src.tag = "ok"
        /\ \E i \in 1..Len(weather_csv) :
              ParseFails(patterns, weather_csv[i].Message)) =>
          /\ last.out.tag = "raise"
          /\ last.out.exc \in {"ValueError", "TypeError"}
          /\ weather_df = LoadedFrame(weather_csv)

\* C11 witness: process_messages raised on two records, the first with a
\* number, the second matched by both patterns, the first of which captures
\* no number and the second of which captures one
C11_Witness ==
    /\ last.op = "process_messages"
    /\ last.out.tag = "raise"
    /\ last.out.exc = "ValueError"
    /\ last.pre.loaded
    /\ Len(last.pre.rows) = 2
    /\ extract_measurement(patterns, last.pre.rows[1].Message).tag = "return"
    /\ Hits(patterns, last.pre.rows[1].Message) # {}
    /\ ParseFails(patterns, last.pre.rows[2].Message)
    /\ Hits(patterns, last.pre.rows[2].Message) = {1, 2}
    /\ FloatParses(GroupText(re_search(patterns[2].pattern,
                                       last.pre.rows[2].Message)))
    /\ weather_df = last.pre

--------------------------------------------------------------------------
(* Claims on the field pipeline *)

\* the frame `post` is `pre` with the columns c1 and c2, both present,
\* under each other's label and nothing else changed
FullyExchanged(pre, post, c1, c2) ==
    /\ pre.loaded /\ post.loaded
    /\ HasLabel(pre.columns, c1) /\ HasLabel(pre.columns, c2)
    /\ post.rows = pre.rows
    /\ Len(post.columns) = Len(pre.columns)
    /\ \A j \in 1..Len(pre.columns) :
          post.columns[j] = IF pre.columns[j] = c1 THEN c2
                            ELSE IF pre.columns[j] = c2 THEN c1
                            ELSE pre.columns[j]

\* C4 as stated: after rename_columns, either it returned and both
\* configured columns are exchanged, or it raised and the frame is what it
\* was before the call.
C4_AsStated ==
    last.op = "rename_columns" =>
        \/ /\ last.out.tag = "return"
           /\ FullyExchanged(last.pre, df,
                             columns_to_rename[1][1], columns_to_rename[1][2])
        \/ /\ last.out.tag = "raise"
           /\ df = last.pre

\* C5: two rename_columns calls in a row on a frame that has both configured
\* columns both return and leave every label on the column it named before
\* the first call, no cell changed and no label added.
C5_Involutive ==
    ( /\ last.op = "rename_columns"
      /\ prev.op = "rename_columns"
      /\ prev.pre.loaded
      /\ Len(columns_to_rename) > 0
      /\ HasLabel(prev.pre.columns, columns_to_rename[1][1])
      /\ HasLabel(prev.pre.columns, columns_to_rename[1][2]) ) =>
        /\ prev.out.tag = "return" /\ last.out.tag = "return"
        /\ df.columns = prev.pre.columns
        /\ df.rows = prev.pre.rows

\* C5 witness: the second of two swaps of two different columns has
\* returned, on a frame one of whose labels is the default placeholder
C5_Witness ==
    /\ last.op = "rename_columns"
    /\ prev.op = "rename_columns"
    /\ last.out.tag = "return"
    /\ prev.pre.loaded
    /\ columns_to_rename[1][1] # columns_to_rename[1][2]
    /\ HasLabel(prev.pre.columns, columns_to_rename[1][1])
    /\ HasLabel(prev.pre.columns, columns_to_rename[1][2])
    /\ HasLabel(prev.pre.columns, "__temp_name_for_swap__")
    /\ last.pre.columns # df.columns

\* C6 as stated: when a collaborator of an ingestion fails, the call ends in
\* the error the collaborator raised.
C6_AsStated ==
    ( /\ last.op \in {"ingest_sql_data", "F.weather_station_mapping"}
      /\ last.src.tag = "raise" ) =>
        last.out = Raised(last.src.exc)

Elevation(frame) == Column(frame, "Elevation")

\* C7: apply_corrections on a table with Crop_type and a numeric Elevation
\* returns, negative elevations or not; when it returns, it keeps every
\* record and leaves in Elevation the absolute value of what was there; from
\* then on and until a new table is ingested, through rename_columns and
\* the merge of the station mapping, every record's Elevation is a number
\* >= 0, and the merge drops no record.
C7_ElevationNonNegative ==
    /\ (/\ last.op = "apply_corrections"
        /\ last.pre.loaded
        /\ HasLabel(last.pre.columns, "Elevation")
        /\ HasLabel(last.pre.columns, "Crop_type")
        /\ \A i \in 1..Len(last.pre.rows) : IsNum(Elevation(last.pre)[i])) =>
          last.out.tag = "return"
    /\ (last.op = "apply_corrections" /\ last.out.tag = "return") =>
          /\ Len(df.rows) = Len(last.pre.rows)
          /\ \A i \in 1..Len(df.rows) :
                LET before == Elevation(last.pre)[i][2]
                    after == Elevation(df)[i][2]
                IN  after >= 0 /\ (after = before \/ after = 0 - before)
    /\ corrected =>
          /\ df.loaded
          /\ HasLabel(df.columns, "Elevation")
          /\ \A i \in 1..Len(df.rows) :
                IsNum(Elevation(df)[i]) /\ Elevation(df)[i][2] >= 0
    /\ (corrected /\ last.op = "F.weather_station_mapping") =>
          Len(df.rows) >= Len(last.pre.rows)

\* C7 witness: a table with a negative Elevation has been corrected, has
\* then had its columns renamed (its Crop_type holds an alias that a
\* correction after the rename would have replaced) and has then been
\* merged with the station mapping, which fanned its rows out
C7_Witness ==
    /\ corrected
    /\ last.op = "F.weather_station_mapping"
    /\ last.out.tag = "return"
    /\ Len(df.rows) > Len(last.pre.rows)
    /\ \E i \in 1..Len(field_db.rows) : field_db.rows[i][2][2] < 0
    /\ values_to_rename = AliasTable
    /\ \E i \in 1..Len(df.rows) : Column(df, "Crop_type")[i] = Str("cassaval")

\* the crop types test_crop_types_are_valid accepts
valid_crop_types ==
    {"cassava", "tea", "wheat", "potato", "banana", "coffee", "rice",
     "maize", "wheat ", "tea ", "cassava "}

IsValidCrop(c) == IsStr(c) /\ c[2] \in valid_crop_types

CropType(frame) == Column(frame, "Crop_type")

\* C8 as stated, for a Crop_type column of strings and the alias table of
\* the three known misspellings: after apply_corrections returns, every
\* record's Crop_type is a valid crop type.
C8_AsStated ==
    ( /\ last.op = "apply_corrections"
      /\ last.out.tag = "return"
      /\ values_to_rename = AliasTable
      /\ \A i \in 1..Len(last.pre.rows) : IsStr(CropType(last.pre)[i]) ) =>
        \A i \in 1..Len(df.rows) : IsValidCrop(CropType(df)[i])

\* C8 amended: after apply_corrections returns, every record's Crop_type is
\* the alias table's value for its previous Crop_type when that is a key of
\* the table, and its previous Crop_type otherwise; so it is a valid crop
\* type exactly when the previous value is an alias of one, or is no alias
\* and valid already.
C8_AliasImage ==
    (last.op = "apply_corrections" /\ last.out.tag = "return") =>
        /\ Len(df.rows) = Len(last.pre.rows)
        /\ \A i \in 1..Len(df.rows) :
              LET before == CropType(last.pre)[i]
                  after == CropType(df)[i]
                  known == IsStr(before) /\ before[2] \in DOMAIN values_to_rename
              IN  /\ known => after = Str(values_to_rename[before[2]])
                  /\ ~known => after = before
                  /\ IsValidCrop(after) <=>
                        \/ known /\ values_to_rename[before[2]] \in valid_crop_types
                        \/ ~known /\ IsValidCrop(before)

\* C8 witness: apply_corrections has returned on a table with an alias and
\* with a crop type that is neither an alias nor valid
C8_Witness ==
    /\ last.op = "apply_corrections"
    /\ last.out.tag = "return"
    /\ \E i, j \in 1..Len(last.pre.rows) :
          LET a == CropType(last.pre)[i]
              b == CropType(last.pre)[j]
          IN  /\ IsStr(a) /\ a[2] \in DOMAIN values_to_rename
              /\ CropType(df)[i] # a
              /\ IsStr(b) /\ b[2] \notin DOMAIN values_to_rename
              /\ ~IsValidCrop(b)

\* how many rows of a sequence satisfy a test
Count(rows, Test(_)) == Cardinality({i \in 1..Len(rows) : Test(rows[i])})

\* C9: when the merge returns, every row of the result is a field row
\* followed by station cells; a field row whose Field_ID no mapping row has
\* gives one row with a NaN station, and a field row whose Field_ID k >= 1
\* mapping rows have gives one row per mapping row, with its station: for
\* every Field_ID f and station w the result has (rows of f before) x
\* (mapping rows of f and w) rows, and (rows of f before) rows of f with NaN
\* when the mapping has no row of f, none otherwise.
C9_LeftJoin ==
    (last.op = "F.weather_station_mapping" /\ last.out.tag = "return") =>
        LET width == Len(last.pre.columns)
            k == ColumnIndex(last.pre.columns, "Field_ID")
            keys == {last.pre.rows[i][k] : i \in 1..Len(last.pre.rows)}
                    \cup {mapping_csv[i][1] : i \in 1..Len(mapping_csv)}
                    \cup {df.rows[i][k] : i \in 1..Len(df.rows)}
            stations == {mapping_csv[i][2] : i \in 1..Len(mapping_csv)}
                        \cup {df.rows[i][width + 1] : i \in 1..Len(df.rows)}
            Before(f) == Count(last.pre.rows, LAMBDA r : r[k] = f)
            Mapped(f, w) == Count(mapping_csv, LAMBDA m : m[1] = f /\ m[2] = w)
            MappedAny(f) == Count(mapping_csv, LAMBDA m : m[1] = f)
            After(f, w) == Count(df.rows, LAMBDA r : r[k] = f /\ r[width + 1] = w)
        IN  /\ \A i \in 1..Len(df.rows) :
                  \E j \in 1..Len(last.pre.rows) :
                      SubSeq(df.rows[i], 1, width) = last.pre.rows[j]
            /\ \A f \in keys :
                  /\ \A w \in stations \ {NaN} :
                        After(f, w) = Before(f) * Mapped(f, w)
                  /\ After(f, NaN) = IF MappedAny(f) = 0 THEN Before(f) ELSE 0

\* C9 witness: the merge has returned on a table with a Field_ID that no
\* mapping row has and a Field_ID that two mapping rows have
C9_Witness ==
    /\ last.op = "F.weather_station_mapping"
    /\ last.out.tag = "return"
    /\ LET k == ColumnIndex(last.pre.columns, "Field_ID")
       IN  \E i, j \in 1..Len(last.pre.rows) :
              /\ Count(mapping_csv, LAMBDA m : m[1] = last.pre.rows[i][k]) = 0
              /\ Count(mapping_csv, LAMBDA m : m[1] = last.pre.rows[j][k]) = 2

====
